---- MODULE Spec2Model ----
(***************************************************************************)
(* BESS incident map (src/app.py): a Dash page with a card list, a marker  *)
(* layer and a dcc.Store "selected-index".  The model covers the data      *)
(* loading that assigns the record identifiers, the two server callbacks   *)
(* (update_selected_index, update_markers), the clientside callback that   *)
(* restyles the cards and starts the map-centering interval, the interval  *)
(* handler checkMap, and the coordinate-injection callback.                *)
(*                                                                         *)
(* Callback scheduling follows the Dash renderer: a click on a card or a   *)
(* marker changes an n_clicks input of update_selected_index and of the    *)
(* clientside card callback; the card callback also reads selected-index,  *)
(* the output of update_selected_index, so it runs once, after that        *)
(* callback has answered (with a value or with an error); update_markers   *)
(* and the card callback then run in either order.  A click is taken when  *)
(* no callback is in flight.  The store is not empty.                      *)
(*                                                                         *)
(* Time is counted in ticks of TickMs milliseconds (half a retry           *)
(* interval), so that two intervals can run out of phase.  Radii are kept  *)
(* as integers: scale_radius returns hundredths, a marker's radius field   *)
(* is in units of 1/200 (so that radius * 1.5 stays an integer).           *)
(***************************************************************************)
EXTENDS Integers, Sequences, FiniteSets

(* ------------------------------ bounds --------------------------------- *)
\* rows of the spreadsheet before rows without coordinates are dropped
MaxRows == 3
\* clicks the user makes in one behaviour
MaxClicks == 2

(* ------------------------- program constants --------------------------- *)
DebounceMs == 300
IntervalMs == 100
maxAttempts == 50
min_radius == 5
max_radius == 20
EmphasisNum == 3
EmphasisDen == 2
initial_selected == -1

TickMs == IntervalMs \div 2
DebounceTicks == DebounceMs \div TickMs
IntervalTicks == IntervalMs \div TickMs

(* ------------------------------ data ----------------------------------- *)
\* a spreadsheet cell of the column 'Capacity (MW)': a number or NaN
Cell(v) == [nan |-> FALSE, val |-> v]
NaN == [nan |-> TRUE, val |-> 0]

\* pd.to_numeric(...).fillna(0)
fillna0(c) == IF c.nan THEN Cell(0) ELSE c

\* capacities of the built-in fallback dataset, reused row after row
FallbackCapacity == <<400, 100, 200, 50, 300>>
RowCapacity(i) == Cell(FallbackCapacity[((i - 1) % Len(FallbackCapacity)) + 1])

\* capacities the radius specification draws from
Capacities == {NaN, Cell(-1), Cell(0), Cell(50), Cell(70), Cell(100)}

\* df.dropna(subset=['latitude','longitude']) after df['index'] = range(len(df)):
\* the surviving rows keep the labels 0..n-1 they had before the drop
RECURSIVE KeptLabels(_, _)
KeptLabels(n, hasCoords) ==
    IF n = 0 THEN <<>>
    ELSE IF hasCoords[n] THEN Append(KeptLabels(n - 1, hasCoords), n - 1)
         ELSE KeptLabels(n - 1, hasCoords)

RECURSIVE KeptCells(_, _, _)
KeptCells(n, hasCoords, cells) ==
    IF n = 0 THEN <<>>
    ELSE IF hasCoords[n] THEN Append(KeptCells(n - 1, hasCoords, cells), fillna0(cells[n]))
         ELSE KeptCells(n - 1, hasCoords, cells)

SeqRange(s) == {s[k] : k \in 1..Len(s)}

RECURSIVE SetMax(_)
SetMax(S) ==
    LET x == CHOOSE y \in S : TRUE
    IN IF S = {x} THEN x
       ELSE LET m == SetMax(S \ {x}) IN IF x > m THEN x ELSE m

(* --------------------------- scale_radius ------------------------------ *)
\* round(n / d, 0) as Python rounds: to nearest, ties to even (d > 0, n >= 0)
RoundHalfEven(n, d) ==
    LET q == n \div d
        r == n % d
    IN IF 2 * r < d THEN q
       ELSE IF 2 * r > d THEN q + 1
       ELSE IF q % 2 = 0 THEN q ELSE q + 1

\* scale_radius interpolating over max_radius instead of max_radius - min_radius
scale_radius_full_range(capacity, max_capacity) ==
    IF max_capacity = 0 \/ capacity.nan \/ capacity.val <= 0
    THEN 100 * min_radius
    ELSE RoundHalfEven(100 * min_radius * max_capacity
                         + 100 * max_radius * capacity.val,
                       max_capacity)

\* scale_radius(capacity, max_capacity=max_capacity), in hundredths
scale_radius(capacity, max_capacity) ==
    IF max_capacity = 0 \/ capacity.nan \/ capacity.val <= 0
    THEN 100 * min_radius
    ELSE RoundHalfEven(100 * min_radius * max_capacity
                         + 100 * (max_radius - min_radius) * capacity.val,
                       max_capacity)

VARIABLES
    labels,          \* df.index: the labels of the rows of df, in order
    capacity,        \* df['Capacity (MW)'], by position
    selectedIndex,   \* dcc.Store 'selected-index'
    cardBorder,      \* border style of the children of 'location-list', by position
    markers,         \* children of 'marker-layer'
    sinceLastClick,  \* min(Date.now() - window.lastClickTime, DebounceMs), in ticks
    intervals,       \* the live setInterval(checkMap) timers, oldest first
    setViewLog,      \* the setView calls made so far
    scrollLog,       \* the scrollIntoView calls made so far
    mapReady,        \* window.dash_leaflet_map is set
    coordsInjected,  \* window.dash_clientside_data is set
    trigger,         \* ctx.triggered_id['index'] of the click being processed
    pending,         \* callbacks queued by the renderer
    clicks,          \* clicks made so far
    serverErrors,    \* exceptions raised by server callbacks (HTTP 500)
    started,         \* intervals started so far
    finishedLog,     \* intervals cleared so far, with the number of checks they made
    lastApplied      \* selected_index of the last card callback that passed the debounce

vars == <<labels, capacity, selectedIndex, cardBorder, markers, sinceLastClick,
          intervals, setViewLog, scrollLog, mapReady, coordsInjected,
          trigger, pending, clicks, serverErrors, started, finishedLog, lastApplied>>

N == Len(labels)

\* df['Capacity (MW)'].max()
max_capacity == SetMax({capacity[p].val : p \in 1..N})

\* one dl.CircleMarker; radius in units of 1/(100 * EmphasisDen), so that
\* radius * 1.5 (EmphasisNum / EmphasisDen) is an integer
Marker(id, pos, selected) ==
    [id |-> id,
     color |-> IF selected THEN "red" ELSE "blue",
     radius |-> scale_radius(capacity[pos], max_capacity)
                  * (IF selected THEN EmphasisNum ELSE EmphasisDen)]

\* the layout's marker-layer children: one blue marker per row, id = row label
InitialMarkers == [p \in 1..N |-> Marker(labels[p], p, FALSE)]

\* the layout's cards (generate_cards): one per row, id = data-index = row label
InitialCards == [p \in 1..N |-> "1px solid black"]

NoTrigger == [type |-> "none", index |-> -1]

USI == "update_selected_index"
UM == "update_markers"
CS == "card_callback"
INJ == "inject_coordinates"

\* the state after the layout is built and the page is served: the two
\* clientside callbacks without prevent_initial_call are queued
InitPage ==
    /\ selectedIndex = initial_selected
    /\ cardBorder = InitialCards
    /\ markers = InitialMarkers
    /\ sinceLastClick = DebounceTicks
    /\ intervals = <<>>
    /\ setViewLog = <<>>
    /\ scrollLog = <<>>
    /\ mapReady = FALSE
    /\ coordsInjected = FALSE
    /\ trigger = NoTrigger
    /\ pending = {CS, INJ}
    /\ clicks = 0
    /\ serverErrors = 0
    /\ started = 0
    /\ finishedLog = <<>>
    /\ lastApplied = initial_selected

\* data loading: n rows, some of them without coordinates after geocoding
Init ==
    /\ \E n \in 1..MaxRows : \E hasCoords \in [1..n -> BOOLEAN] :
          /\ \E i \in 1..n : hasCoords[i]
          /\ labels = KeptLabels(n, hasCoords)
          /\ capacity = KeptCells(n, hasCoords, [i \in 1..n |-> RowCapacity(i)])
    /\ InitPage

(* ------------------------------ clicks --------------------------------- *)
\* the user clicks the card whose id is {'type': 'location-item', 'index': id}
ClickCard(id) ==
    /\ pending = {}
    /\ clicks < MaxClicks
    /\ id \in SeqRange(labels)
    /\ trigger' = [type |-> "location-item", index |-> id]
    /\ pending' = {USI, CS}
    /\ clicks' = clicks + 1
    /\ UNCHANGED <<labels, capacity, selectedIndex, cardBorder, markers, sinceLastClick,
                   intervals, setViewLog, scrollLog, mapReady, coordsInjected,
                   serverErrors, started, finishedLog, lastApplied>>

\* the user clicks a marker of the layer, id {'type': 'marker', 'index': id}
ClickMarker(id) ==
    /\ pending = {}
    /\ clicks < MaxClicks
    /\ id \in {markers[k].id : k \in 1..Len(markers)}
    /\ trigger' = [type |-> "marker", index |-> id]
    /\ pending' = {USI, CS}
    /\ clicks' = clicks + 1
    /\ UNCHANGED <<labels, capacity, selectedIndex, cardBorder, markers, sinceLastClick,
                   intervals, setViewLog, scrollLog, mapReady, coordsInjected,
                   serverErrors, started, finishedLog, lastApplied>>

(* ------------------------- server callbacks ---------------------------- *)
\* df.iloc[clicked_index] raises IndexError outside 0..len(df)-1
ilocValid(i) == 0 <= i /\ i < N

update_selected_index ==
    /\ USI \in pending
    /\ IF ilocValid(trigger.index)
       THEN /\ selectedIndex' = trigger.index
            /\ pending' = (pending \ {USI}) \cup {UM}
            /\ UNCHANGED serverErrors
       ELSE /\ serverErrors' = serverErrors + 1
            /\ pending' = pending \ {USI}
            /\ UNCHANGED selectedIndex
    /\ UNCHANGED <<labels, capacity, cardBorder, markers, sinceLastClick, intervals,
                   setViewLog, scrollLog, mapReady, coordsInjected, trigger, clicks,
                   started, finishedLog, lastApplied>>

\* the markers update_markers builds: one per position, id = position
RenderedMarkers(selected_index) ==
    [p \in 1..N |-> Marker(p - 1, p, (p - 1) = selected_index)]

\* Patch().append(...) for every position: appended to the existing children
update_markers ==
    /\ UM \in pending
    /\ USI \notin pending
    /\ markers' = markers \o RenderedMarkers(selectedIndex)
    /\ pending' = pending \ {UM}
    /\ UNCHANGED <<labels, capacity, selectedIndex, cardBorder, sinceLastClick, intervals,
                   setViewLog, scrollLog, mapReady, coordsInjected, trigger, clicks,
                   serverErrors, started, finishedLog, lastApplied>>

(* ------------------------ clientside callbacks ------------------------- *)
\* now - lastClickTime < 300
Debounced == sinceLastClick < DebounceTicks

\* children.map((child, i) => border: i === selected_index ? red : black)
CardStyles(selected_index) ==
    [p \in 1..N |-> IF (p - 1) = selected_index THEN "2px solid red"
                    ELSE "1px solid black"]

\* document.querySelector('[data-index="<selected_index>"]')
querySelector(selected_index) == selected_index \in SeqRange(labels)

NewInterval(selected_index) ==
    [index |-> selected_index, attempts |-> 0, due |-> IntervalTicks, seq |-> started + 1]

card_callback ==
    /\ CS \in pending
    /\ USI \notin pending
    /\ pending' = pending \ {CS}
    /\ IF Debounced
       THEN UNCHANGED <<sinceLastClick, cardBorder, scrollLog, intervals, started, lastApplied>>
       ELSE /\ sinceLastClick' = 0
            /\ cardBorder' = CardStyles(selectedIndex)
            /\ lastApplied' = selectedIndex
            /\ IF selectedIndex >= 0
               THEN /\ scrollLog' = IF querySelector(selectedIndex)
                                    THEN Append(scrollLog, selectedIndex)
                                    ELSE scrollLog
                    /\ intervals' = Append(intervals, NewInterval(selectedIndex))
                    /\ started' = started + 1
               ELSE UNCHANGED <<scrollLog, intervals, started>>
    /\ UNCHANGED <<labels, capacity, selectedIndex, markers, setViewLog, mapReady,
                   coordsInjected, trigger, clicks, serverErrors, finishedLog>>

\* window.dash_clientside_data = df[['latitude','longitude']].values.tolist()
inject_coordinates ==
    /\ INJ \in pending
    /\ coordsInjected' = TRUE
    /\ pending' = pending \ {INJ}
    /\ UNCHANGED <<labels, capacity, selectedIndex, cardBorder, markers, sinceLastClick,
                   intervals, setViewLog, scrollLog, mapReady, trigger, clicks,
                   serverErrors, started, finishedLog, lastApplied>>

(* --------------------------- time and timers --------------------------- *)
Due == {k \in 1..Len(intervals) : intervals[k].due = 0}

Min(a, b) == IF a < b THEN a ELSE b

\* TickMs milliseconds pass; no timer handler is waiting to run
Tick ==
    /\ Due = {}
    /\ sinceLastClick' = Min(sinceLastClick + 1, DebounceTicks)
    /\ intervals' = [k \in 1..Len(intervals) |->
                        [intervals[k] EXCEPT !.due = intervals[k].due - 1]]
    /\ UNCHANGED <<labels, capacity, selectedIndex, cardBorder, markers, setViewLog,
                   scrollLog, mapReady, coordsInjected, trigger, pending, clicks,
                   serverErrors, started, finishedLog, lastApplied>>

RemoveAt(s, k) == [j \in 1..(Len(s) - 1) |-> IF j < k THEN s[j] ELSE s[j + 1]]

\* window.dash_leaflet_map && window.dash_clientside_data
\*   && window.dash_clientside_data[selected_index]
Ready(selected_index) ==
    mapReady /\ coordsInjected /\ selected_index < N

\* window.dash_clientside_data[selected_index]: the row at that position
Coordinate(selected_index) == labels[selected_index + 1]

GaveUp(t) == t.attempts >= maxAttempts

\* one run of the interval handler of the oldest timer that is due
checkMap ==
    /\ Due # {}
    /\ LET k == CHOOSE j \in Due : \A i \in Due : j <= i
           t == intervals[k]
       IN IF Ready(t.index)
          THEN /\ setViewLog' = Append(setViewLog,
                       [index |-> t.index, seq |-> t.seq, center |-> Coordinate(t.index)])
               /\ intervals' = RemoveAt(intervals, k)
               /\ finishedLog' = Append(finishedLog,
                       [seq |-> t.seq, checks |-> t.attempts + 1, outcome |-> "setView"])
          ELSE IF GaveUp(t)
          THEN /\ intervals' = RemoveAt(intervals, k)
               /\ finishedLog' = Append(finishedLog,
                       [seq |-> t.seq, checks |-> t.attempts + 1, outcome |-> "timeout"])
               /\ UNCHANGED setViewLog
          ELSE /\ intervals' = [intervals EXCEPT ![k] =
                       [t EXCEPT !.attempts = t.attempts + 1, !.due = IntervalTicks]]
               /\ UNCHANGED <<setViewLog, finishedLog>>
    /\ UNCHANGED <<labels, capacity, selectedIndex, cardBorder, markers, sinceLastClick,
                   scrollLog, mapReady, coordsInjected, trigger, pending, clicks,
                   serverErrors, started, lastApplied>>

\* the map component publishes window.dash_leaflet_map
MapBecomesReady ==
    /\ ~mapReady
    /\ mapReady' = TRUE
    /\ UNCHANGED <<labels, capacity, selectedIndex, cardBorder, markers, sinceLastClick,
                   intervals, setViewLog, scrollLog, coordsInjected, trigger, pending,
                   clicks, serverErrors, started, finishedLog, lastApplied>>

Next ==
    \/ \E id \in 0..(MaxRows - 1) : ClickCard(id)
    \/ \E id \in 0..(MaxRows - 1) : ClickMarker(id)
    \/ update_selected_index
    \/ update_markers
    \/ card_callback
    \/ inject_coordinates
    \/ Tick
    \/ checkMap
    \/ MapBecomesReady

Spec == Init /\ [][Next]_vars

(* --------------------- radius specification ---------------------------- *)
\* data loading with the capacities drawn from Capacities
InitRadius ==
    /\ \E n \in 1..MaxRows : \E hasCoords \in [1..n -> BOOLEAN] :
       \E cells \in [1..n -> Capacities] :
          /\ \E i \in 1..n : hasCoords[i]
          /\ labels = KeptLabels(n, hasCoords)
          /\ capacity = KeptCells(n, hasCoords, cells)
    /\ InitPage

NextRadius ==
    \/ \E id \in 0..(MaxRows - 1) : ClickCard(id)
    \/ \E id \in 0..(MaxRows - 1) : ClickMarker(id)
    \/ update_selected_index
    \/ update_markers
    \/ card_callback
    \/ inject_coordinates

SpecRadius == InitRadius /\ [][NextRadius]_vars

(* ------------------------------ claims --------------------------------- *)
\* the retry loop as written: an interval that has ended made at most
\* maxAttempts + 1 checks, a live one at most maxAttempts, and each interval
\* calls setView at most once
RetryLoopBound ==
    /\ \A k \in 1..Len(finishedLog) : finishedLog[k].checks <= maxAttempts + 1
    /\ \A k \in 1..Len(intervals) : intervals[k].attempts <= maxAttempts
    /\ \A i \in 1..Len(setViewLog) : \A j \in 1..Len(setViewLog) :
          setViewLog[i].seq = setViewLog[j].seq => i = j

Red == "2px solid red"
\* identifiers (card ids) of the cards drawn with the highlighted border
HighlightedCards == {labels[p] : p \in {q \in 1..N : cardBorder[q] = Red}}
\* identifiers of the markers drawn red
RedMarkers == {markers[k].id : k \in {j \in 1..Len(markers) : markers[j].color = "red"}}
\* the click being processed was accepted by update_selected_index
Accepted == trigger # NoTrigger /\ ilocValid(trigger.index)

\* C1: once the callbacks of a click that update_selected_index accepted have
\* run, the highlighted card, the red marker and the camera all belong to the
\* stored selected-index.
C1_ViewsAgree ==
    (pending = {} /\ Accepted)
        => /\ HighlightedCards = {selectedIndex}
           /\ RedMarkers = {selectedIndex}
           /\ (intervals = <<>> /\ setViewLog # <<>>)
                 => setViewLog[Len(setViewLog)].index = selectedIndex

\* C2: a click whose callbacks run while the debounce window of the last
\* accepted click is still open (the card callback has not run yet and would
\* return no_update) changes neither selected-index, nor the markers, nor the
\* cards, nor starts a camera retry.
C2_DebouncedClickChangesNothing ==
    [][(CS \in pending /\ Debounced)
          => (selectedIndex' = selectedIndex /\ markers' = markers
              /\ cardBorder' = cardBorder /\ started' = started)]_vars

\* C3: a click on the record that is already selected and applied, outside the
\* debounce window, leaves the marker set as it is and starts no scroll and no
\* second camera retry.
C3_ReselectionIdempotent ==
    [][(CS \in pending /\ USI \notin pending /\ ~Debounced
          /\ trigger.index = lastApplied /\ selectedIndex = lastApplied)
          => (markers' = markers /\ started' = started /\ scrollLog' = scrollLog
              /\ cardBorder' = cardBorder)]_vars

\* C4: when no callback is in flight, exactly one card is highlighted if
\* selected-index holds a record identifier and none if it is -1.
C4_ExactlyOneHighlighted ==
    pending = {}
        => Cardinality({q \in 1..N : cardBorder[q] = Red})
              = (IF selectedIndex = initial_selected THEN 0 ELSE 1)

\* C5: a retry sequence started earlier never calls setView after a sequence
\* started later has already called it.
C5_StaleRetrySuperseded ==
    \A i \in 1..Len(setViewLog) : \A j \in 1..Len(setViewLog) :
        i < j => setViewLog[i].seq < setViewLog[j].seq

\* C6: every retry sequence that has ended made at most maxAttempts (50)
\* readiness checks.
C6_AtMostMaxAttemptsChecks ==
    \A k \in 1..Len(finishedLog) : finishedLog[k].checks <= maxAttempts

\* C7: a click whose identifier is no position of the store is a NoOp: no
\* step taken while its callbacks are in flight changes selected-index, the
\* markers or the cards, starts a scroll or a camera retry, or raises an error.
C7_InvalidActivationIsNoOp ==
    [][(pending # {} /\ trigger # NoTrigger /\ ~ilocValid(trigger.index))
          => (selectedIndex' = selectedIndex /\ markers' = markers
              /\ cardBorder' = cardBorder /\ started' = started
              /\ scrollLog' = scrollLog /\ serverErrors' = serverErrors)]_vars

\* C8: the marker layer holds exactly one marker per record, each identifier
\* once, and only the marker of selected-index may be red.
C8_OneMarkerPerRecord ==
    /\ Len(markers) = N
    /\ \A j \in 1..Len(markers) : \A k \in 1..Len(markers) :
          markers[j].id = markers[k].id => j = k
    /\ RedMarkers \subseteq {selectedIndex}

\* C9: the identifiers of the cards and of the markers are the positions
\* 0..N-1 of the store, each once and in order, so that once a click has been
\* processed the identifier it reported is a position of the store and the
\* record at that position is the record whose card or marker carried it.
C9_IdentifiersArePositions ==
    (pending = {} /\ trigger # NoTrigger)
        => /\ \A p \in 1..N : labels[p] = p - 1
           /\ {markers[k].id : k \in 1..Len(markers)} = 0..(N - 1)
           /\ ilocValid(trigger.index)
           /\ labels[trigger.index + 1] = trigger.index

(* ---- helpers of the radius claim ---- *)
Abs(x) == IF x < 0 THEN 0 - x ELSE x
\* position of the record the k-th child of the marker layer draws
PositionOf(k) == ((k - 1) % N) + 1
\* the factor a marker's radius carries: 1.5 when red, 1 when blue
Factor(m) == IF m.color = "red" THEN EmphasisNum ELSE EmphasisDen
\* max_capacity times the unrounded linear scale of position p, in hundredths
ExactTimesMax(p) ==
    100 * min_radius * max_capacity + 100 * (max_radius - min_radius) * capacity[p].val
Degenerate(p) == max_capacity = 0 \/ capacity[p].val <= 0
ScenarioCaps == <<Cell(100), Cell(50), Cell(0)>>
Radii(ms) == [k \in 1..Len(ms) |-> ms[k].radius]
LatestRender == SubSeq(markers, Len(markers) - N + 1, Len(markers))
Rendered == Len(markers) > N /\ UM \notin pending /\ USI \notin pending

\* C10 as stated: every marker update_markers renders has the radius
\* min_radius + (max_radius - min_radius) * capacity / max_capacity exactly
\* (times 1.5 when selected), and min_radius in the degenerate cases.
C10_ExactLinearScale ==
    \A k \in (N + 1)..Len(markers) :
        LET p == PositionOf(k)
            m == markers[k]
        IN IF Degenerate(p)
           THEN m.radius = 100 * min_radius * Factor(m)
           ELSE m.radius * max_capacity = ExactTimesMax(p) * Factor(m)

\* C10 amended: the radius is that value rounded to two decimals (within half
\* a hundredth of it), times 1.5 exactly for the selected record, min_radius in
\* the degenerate cases, non-decreasing in capacity among markers of equal
\* selection status; the marker of selected-index is the red one; and the
\* scenario [100, 50, 0] renders [20, 12.5, 5], [20, 18.75, 5] with record 1
\* selected.
C10_RoundedLinearScale ==
    /\ \A k \in 1..Len(markers) :
          LET p == PositionOf(k)
              m == markers[k]
              s == m.radius \div Factor(m)
          IN /\ m.radius % Factor(m) = 0
             /\ Degenerate(p) => s = 100 * min_radius
             /\ ~Degenerate(p) => 2 * Abs(s * max_capacity - ExactTimesMax(p)) <= max_capacity
    /\ \A j \in 1..Len(markers) : \A k \in 1..Len(markers) :
          (markers[j].color = markers[k].color
             /\ capacity[PositionOf(j)].val <= capacity[PositionOf(k)].val)
          => markers[j].radius <= markers[k].radius
    /\ \A c \in Capacities : scale_radius(NaN, c.val) = 100 * min_radius
    /\ Rendered => \A p \in 1..N :
          (LatestRender[p].color = "red") <=> (p - 1 = selectedIndex)
    /\ capacity = ScenarioCaps
          => /\ Radii(SubSeq(markers, 1, N)) = <<4000, 2500, 1000>>
             /\ (Rendered /\ selectedIndex = 1)
                   => Radii(LatestRender) = <<4000, 3750, 1000>>

\* the scenario store with record 1 selected and rendered by update_markers
C10_Witness ==
    /\ capacity = ScenarioCaps
    /\ Rendered
    /\ selectedIndex = 1
    /\ pending = {}
====
